---- MODULE Spec2Model ----
(***************************************************************************)
(* punks2 playback engine (crates/punks-playback): the control thread's    *)
(* play/poll/stop/status, the one-shot decode workers and the hardware     *)
(* audio callback, over the SharedState they share.                        *)
(*                                                                         *)
(* Samples are modelled as small non-zero integers; 0 is silence (0.0).    *)
(***************************************************************************)
EXTENDS Integers, Sequences, FiniteSets, TLC

\* ------------------------------------------------------------------ bounds

\* number of play() calls (one worker thread and one channel per call)
MaxPlays == 2
\* largest output buffer the device hands to the callback, in frames
MaxReqFrames == 1

\* the longest extraction, in samples, the pipeline is run on by itself
MaxSamples == 4

\* the most channels a track or the device has when the pipeline is run by
\* itself
MaxChannels == 3

\* the most entries a listed directory has
MaxEntries == 3

\* the levels of directories the browser can walk, the one opened included
MaxDepth == 3

\* ------------------------------------------------------- device parameters

\* supported_config.channels() of the opened output device (stereo)
device_channels == 2
\* supported_config.sample_rate() of the opened output device
device_sample_rate == 48000

\* ------------------------------------------------------------ small helpers

None == "None"

Min(a, b) == IF a < b THEN a ELSE b

\* data.fill(0.0) over a buffer of n samples
Silence(n) == [i \in 1..n |-> 0]

\* the device's buffer of n samples before the callback has written it
Unfilled(n) == [i \in 1..n |-> -1]

\* samples[from .. from + n] (0-based, half-open) as a sequence
Slice(s, from, n) == [i \in 1..n |-> s[from + i]]

\* ------------------------------------------------- the preparation pipeline

\* The files the control thread may ask for, and what the decoder collaborator
\* (symphonia) extracts from each: the track's interleaved samples, channel
\* count and sample rate, or the error that ends decode_file early.
Paths == {"a.wav", "b.wav", "empty.wav"}

Extracted(path) ==
    CASE path = "a.wav" ->
           [err |-> None, all_samples |-> <<1, 2, 3, 4>>, channels |-> 2,
            sample_rate |-> 48000]
      [] path = "b.wav" ->
           [err |-> None, all_samples |-> <<5, 6>>, channels |-> 1,
            sample_rate |-> 96000]
      [] path = "empty.wav" ->
           [err |-> None, all_samples |-> <<>>, channels |-> 2,
            sample_rate |-> 48000]
      [] OTHER ->
           [err |-> "probe failed", all_samples |-> <<>>, channels |-> 0,
            sample_rate |-> 0]

\* decode_file's result for what the decoder extracted: Err on any early
\* failure, Err on an empty extraction, else the DecodedAudio
DecodeResultKeepsEmpty(x) ==
    IF x.err # None
      THEN [ok |-> FALSE, err |-> x.err]
    ELSE [ok |-> TRUE, interleaved |-> x.all_samples, channels |-> x.channels,
          sample_rate |-> x.sample_rate]

DecodeResult(x) ==
    IF x.err # None
      THEN [ok |-> FALSE, err |-> x.err]
    ELSE IF x.all_samples = <<>>
      THEN [ok |-> FALSE, err |-> "no audio data decoded"]
    ELSE [ok |-> TRUE, interleaved |-> x.all_samples, channels |-> x.channels,
          sample_rate |-> x.sample_rate]

\* decode_file
decode_file(path) == DecodeResult(Extracted(path))

\* adapt_channels as it would be if it padded the extra channels with
\* silence
AdaptPadsSilence(s, from, to) ==
    IF from = to \/ from = 0 \/ to = 0
      THEN s
    ELSE LET num_frames == Len(s) \div from IN
         [k \in 1..(num_frames * to) |->
            LET frame == (k - 1) \div to
                ch    == (k - 1) % to
                base  == frame * from
            IN IF ch < from THEN s[base + ch + 1] ELSE 0]

\* adapt_channels: per frame, the first min(from,to) channels, then the last
\* source channel repeated
adapt_channels(s, from, to) ==
    IF from = to \/ from = 0 \/ to = 0
      THEN s
    ELSE LET num_frames == Len(s) \div from IN
         [k \in 1..(num_frames * to) |->
            LET frame == (k - 1) \div to
                ch    == (k - 1) % to
                base  == frame * from
            IN IF ch < from THEN s[base + ch + 1] ELSE s[base + from]]

\* Frames the rubato resampler returns for num_frames input frames: the input
\* length scaled by target/source, rounded up.
ResampledFrames(num_frames, source_rate, target_rate) ==
    (num_frames * target_rate + source_rate - 1) \div source_rate

\* resample: de-interleave, convert each channel, re-interleave.  The
\* converter's arithmetic is outside the repository; each output frame takes
\* the input frame nearest before it.
resample(interleaved, channels, source_rate, target_rate) ==
    IF channels = 0
      THEN <<>>
    ELSE LET num_frames == Len(interleaved) \div channels IN
         IF num_frames = 0
           THEN <<>>
         ELSE LET out_frames ==
                    ResampledFrames(num_frames, source_rate, target_rate)
              IN [k \in 1..(out_frames * channels) |->
                    LET frame == (k - 1) \div channels
                        ch    == (k - 1) % channels
                        src   == Min((frame * source_rate) \div target_rate,
                                     num_frames - 1)
                    IN interleaved[src * channels + ch + 1]]

\* decode_and_prepare as it would be if it resampled whatever the rates
PrepareAlwaysResamples(x, path, target_channels, target_rate) ==
    LET decoded == DecodeResult(x) IN
    IF ~decoded.ok
      THEN [ok |-> FALSE, err |-> decoded.err]
    ELSE LET adapted == adapt_channels(decoded.interleaved, decoded.channels,
                                       target_channels)
             samples == resample(adapted, target_channels,
                                 decoded.sample_rate, target_rate)
         IN [ok |-> TRUE, samples |-> samples,
             total_frames |-> Len(samples) \div target_channels,
             file |-> path]

\* decode_and_prepare on what the decoder extracted from `path`: decode,
\* adapt channels, resample if the rates differ, count the frames
PrepareExtracted(x, path, target_channels, target_rate) ==
    LET decoded == DecodeResult(x) IN
    IF ~decoded.ok
      THEN [ok |-> FALSE, err |-> decoded.err]
    ELSE LET adapted == adapt_channels(decoded.interleaved, decoded.channels,
                                       target_channels)
             samples == IF decoded.sample_rate # target_rate
                          THEN resample(adapted, target_channels,
                                        decoded.sample_rate, target_rate)
                          ELSE adapted
         IN [ok |-> TRUE, samples |-> samples,
             total_frames |-> Len(samples) \div target_channels,
             file |-> path]

\* decode_and_prepare
decode_and_prepare(path, target_channels, target_rate) ==
    PrepareExtracted(Extracted(path), path, target_channels, target_rate)

\* -------------------------------------------------------------------- state

VARIABLES
    \* SharedState
    samples,        \* shared.samples: the committed device-ready buffer
    lock,           \* the RwLock around samples: "free", "read" or "write"
    cursor,         \* shared.cursor: read offset, in samples
    playing,        \* shared.playing
    total_frames,   \* shared.total_frames
    \* PlaybackEngine (control thread)
    current_file,   \* self.current_file: a path or None
    pending,        \* self.pending: NoPending or a PendingLoad
    ctl_pc,         \* where the control thread is inside poll()'s commit
    audio,          \* the PreparedAudio poll() took off the channel
    \* worker threads and their one-shot channels, one per play() call
    spawned,        \* number of play() calls so far; the newest worker's id
    worker,         \* worker[i]: "unspawned", "running" or "exited"
    thread_path,    \* thread_path[i]: the path worker i's closure owns
    chan,           \* chan[i]: [rx: receiver alive, msg: the value in flight]
    \* hardware callback
    cb_pc,          \* where the callback invocation is
    data,           \* the output buffer as the last invocation filled it
    cb_cursor,      \* the callback's local `cursor`
    cb_to_copy,     \* the callback's local `to_copy`
    \* observation
    act,            \* which context took the last step
    ctl_op,         \* the last operation called that takes &mut self
    poll_ret,       \* what the last poll() returned: None or an error
    received,       \* ids of the workers whose result try_recv handed to poll()
    loaded,         \* a commit has completed since the last play() call
    played,         \* what the callback has copied out of the buffer of a
                    \* commit since poll() wrote it, while the commit is
                    \* under way or no play() or stop() has followed it
    at_play,        \* playback state as the play() call of the load that is
                    \* pending or has failed found it
    \* the pipeline run by itself
    prep_in,        \* what the decoder extracted, and the device's format
    prep_out,       \* what decode_and_prepare returned for it
    \* list_directory by itself
    ls_dir,         \* the path list_directory is called on, as the OS shows it
    ls_ret,         \* what list_directory returned for it
    \* SampleBrowser
    history,        \* the directories walked into, the current one last
    listing,        \* Option<DirListing>: the listing that entries() shows
    selected,       \* Option<usize>
    br_op,          \* the last navigation method called
    br_ret          \* what it returned: "Ok" or the error

shared_vars == <<samples, lock, cursor, playing, total_frames>>
engine_vars == <<current_file, pending, ctl_pc, audio>>
worker_vars == <<spawned, worker, thread_path, chan>>
cb_vars     == <<cb_pc, data, cb_cursor, cb_to_copy>>
obs_vars    == <<act, ctl_op, poll_ret, received, loaded, played, at_play>>
prep_vars   == <<prep_in, prep_out>>
ls_vars     == <<ls_dir, ls_ret>>
br_vars     == <<history, listing, selected, br_op, br_ret>>
pure_vars   == <<prep_vars, ls_vars, br_vars>>
vars == <<shared_vars, engine_vars, worker_vars, cb_vars, obs_vars,
          pure_vars>>

Workers == 1..MaxPlays

\* Option<PendingLoad>
NoPending == [some |-> FALSE]
PendingLoad(file, receiver) ==
    [some |-> TRUE, file |-> file, receiver |-> receiver]

\* an empty channel slot, and no PreparedAudio in hand
NoMsg == [ok |-> FALSE, err |-> None]

\* the error poll() makes up when the channel is disconnected
TerminatedErr == "decode thread terminated unexpectedly"

\* data.len() of one invocation: whole frames of the device's channel count
ReqLens == {device_channels * k : k \in 1..MaxReqFrames}

\* at_play before any play() call, and once the load of the last one has been
\* committed or cancelled by stop()
NoSnapshot ==
    [playing |-> FALSE, samples |-> <<>>, cursor |-> 0, total_frames |-> 0,
     current_file |-> None, in_callback |-> FALSE]

\* playback state as a play() call finds it
Snapshot ==
    [playing |-> playing, samples |-> samples, cursor |-> cursor,
     total_frames |-> total_frames, current_file |-> current_file,
     in_callback |-> cb_pc \notin {"idle", "panicked"}]

\* no call of a function that is run by itself, and no result of one
NoInput == [some |-> FALSE]

\* PlaybackEngine::new
New ==
    /\ samples = <<>>
    /\ lock = "free"
    /\ cursor = 0
    /\ playing = FALSE
    /\ total_frames = 0
    /\ current_file = None
    /\ pending = NoPending
    /\ ctl_pc = "idle"
    /\ audio = NoMsg
    /\ spawned = 0
    /\ worker = [i \in Workers |-> "unspawned"]
    /\ thread_path = [i \in Workers |-> None]
    /\ chan = [i \in Workers |-> [rx |-> FALSE, msg |-> NoMsg]]
    /\ cb_pc = "idle"
    /\ data = <<>>
    /\ cb_cursor = 0
    /\ cb_to_copy = 0
    /\ act = "init"
    /\ ctl_op = "new"
    /\ poll_ret = None
    /\ received = {}
    /\ loaded = FALSE
    /\ played = <<>>
    /\ at_play = NoSnapshot

\* SampleBrowser::new, the engine aside
BrowserNew ==
    /\ history = <<>>
    /\ listing = NoInput
    /\ selected = NoInput
    /\ br_op = "new"
    /\ br_ret = "Ok"

\* the engine after construction, in a browser that has opened nothing; the
\* pipeline runs in the workers only
Init ==
    /\ New
    /\ BrowserNew
    /\ prep_in = NoInput
    /\ prep_out = NoMsg
    /\ ls_dir = NoInput
    /\ ls_ret = NoInput

\* self.pending = None: dropping a PendingLoad drops its receiver, and with it
\* whatever the channel still holds
DropPending(p, ch) ==
    IF p.some
      THEN [ch EXCEPT ![p.receiver] = [rx |-> FALSE, msg |-> NoMsg]]
      ELSE ch

\* ----------------------------------------------------------- control thread

\* play() as it would be if it kept a load that is already pending instead
\* of replacing it: the new worker's receiver is dropped on the spot
PlayKeepsPending(path) ==
    /\ ctl_pc = "idle"
    /\ spawned < MaxPlays
    /\ LET id == spawned + 1 IN
       /\ playing' = FALSE
       /\ spawned' = id
       /\ chan' = [chan EXCEPT ![id] = [rx |-> ~pending.some, msg |-> NoMsg]]
       /\ worker' = [worker EXCEPT ![id] = "running"]
       /\ thread_path' = [thread_path EXCEPT ![id] = path]
       /\ pending' = IF pending.some THEN pending ELSE PendingLoad(path, id)
    /\ at_play' = Snapshot
    /\ loaded' = FALSE
    /\ played' = <<>>
    /\ act' = "play"
    /\ ctl_op' = "play"
    /\ UNCHANGED <<samples, lock, cursor, total_frames, current_file, ctl_pc,
                   audio, cb_vars, poll_ret, received, pure_vars>>

\* play() as it would be without the playing.store(false) it starts with
PlayLeavesFlag(path) ==
    /\ ctl_pc = "idle"
    /\ spawned < MaxPlays
    /\ LET id == spawned + 1 IN
       /\ playing' = playing
       /\ spawned' = id
       /\ chan' = [DropPending(pending, chan) EXCEPT
                     ![id] = [rx |-> TRUE, msg |-> NoMsg]]
       /\ worker' = [worker EXCEPT ![id] = "running"]
       /\ thread_path' = [thread_path EXCEPT ![id] = path]
       /\ pending' = PendingLoad(path, id)
    /\ at_play' = Snapshot
    /\ loaded' = FALSE
    /\ played' = <<>>
    /\ act' = "play"
    /\ ctl_op' = "play"
    /\ UNCHANGED <<samples, lock, cursor, total_frames, current_file, ctl_pc,
                   audio, cb_vars, poll_ret, received, pure_vars>>

\* play() as it would be if it rewound the cursor
PlayRewinds(path) ==
    /\ ctl_pc = "idle"
    /\ spawned < MaxPlays
    /\ LET id == spawned + 1 IN
       /\ playing' = FALSE
       /\ spawned' = id
       /\ chan' = [DropPending(pending, chan) EXCEPT
                     ![id] = [rx |-> TRUE, msg |-> NoMsg]]
       /\ worker' = [worker EXCEPT ![id] = "running"]
       /\ thread_path' = [thread_path EXCEPT ![id] = path]
       /\ pending' = PendingLoad(path, id)
    /\ cursor' = 0
    /\ at_play' = Snapshot
    /\ loaded' = FALSE
    /\ played' = <<>>
    /\ act' = "play"
    /\ ctl_op' = "play"
    /\ UNCHANGED <<samples, lock, total_frames, current_file, ctl_pc,
                   audio, cb_vars, poll_ret, received, pure_vars>>

\* PlaybackEngine::play
Play(path) ==
    /\ ctl_pc = "idle"
    /\ spawned < MaxPlays
    /\ LET id == spawned + 1 IN
       /\ playing' = FALSE
       /\ spawned' = id
       /\ chan' = [DropPending(pending, chan) EXCEPT
                     ![id] = [rx |-> TRUE, msg |-> NoMsg]]
       /\ worker' = [worker EXCEPT ![id] = "running"]
       /\ thread_path' = [thread_path EXCEPT ![id] = path]
       /\ pending' = PendingLoad(path, id)
    /\ at_play' = Snapshot
    /\ loaded' = FALSE
    /\ played' = <<>>
    /\ act' = "play"
    /\ ctl_op' = "play"
    /\ UNCHANGED <<samples, lock, cursor, total_frames, current_file, ctl_pc,
                   audio, cb_vars, poll_ret, received, pure_vars>>

\* pending.receiver.try_recv(): a value if one is queued, else Disconnected
\* if the sender is gone, else Empty
try_recv(receiver) ==
    IF chan[receiver].msg # NoMsg THEN "Ok"
    ELSE IF worker[receiver] = "exited" THEN "Disconnected"
    ELSE "Empty"

\* poll() as it would be if a missing PendingLoad were reported like a
\* disconnected channel
PollNoPendingReports ==
    /\ ctl_pc = "idle"
    /\ ~pending.some
    /\ poll_ret' = TerminatedErr
    /\ act' = "poll"
    /\ ctl_op' = "poll"
    /\ UNCHANGED <<shared_vars, engine_vars, worker_vars, cb_vars, received,
                   loaded, at_play, played, pure_vars>>

\* poll(), `let pending = self.pending.as_ref()?`
PollNoPending ==
    /\ ctl_pc = "idle"
    /\ ~pending.some
    /\ poll_ret' = None
    /\ act' = "poll"
    /\ ctl_op' = "poll"
    /\ UNCHANGED <<shared_vars, engine_vars, worker_vars, cb_vars, received,
                   loaded, at_play, played, pure_vars>>

\* poll(), Ok(Ok(audio)): the value leaves the channel and the commit starts
\* by asking for the buffer's write lock
PollRecvAudio ==
    /\ ctl_pc = "idle"
    /\ pending.some
    /\ try_recv(pending.receiver) = "Ok"
    /\ chan[pending.receiver].msg.ok
    /\ audio' = chan[pending.receiver].msg
    /\ chan' = [chan EXCEPT ![pending.receiver].msg = NoMsg]
    /\ received' = received \cup {pending.receiver}
    /\ ctl_pc' = "write_lock"
    /\ act' = "poll"
    /\ ctl_op' = "poll"
    /\ UNCHANGED <<shared_vars, current_file, pending, spawned, worker,
                   thread_path, cb_vars, poll_ret, loaded, at_play, played,
                   pure_vars>>

\* self.shared.samples.write(): waits until no reader holds the lock
PollWriteLock ==
    /\ ctl_pc = "write_lock"
    /\ lock = "free"
    /\ lock' = "write"
    /\ ctl_pc' = "write_buf"
    /\ act' = "commit"
    /\ UNCHANGED <<samples, cursor, playing, total_frames, current_file,
                   pending, audio, worker_vars, cb_vars, ctl_op, poll_ret,
                   received, loaded, at_play, played, pure_vars>>

\* *buf = audio.samples, and the write guard goes out of scope
PollWriteBuf ==
    /\ ctl_pc = "write_buf"
    /\ samples' = audio.samples
    /\ lock' = "free"
    /\ ctl_pc' = "store_cursor"
    /\ played' = <<>>
    /\ act' = "commit"
    /\ UNCHANGED <<cursor, playing, total_frames, current_file, pending,
                   audio, worker_vars, cb_vars, ctl_op, poll_ret, received,
                   loaded, at_play, pure_vars>>

\* self.shared.cursor.store(0)
PollStoreCursor ==
    /\ ctl_pc = "store_cursor"
    /\ cursor' = 0
    /\ ctl_pc' = "store_total"
    /\ act' = "commit"
    /\ UNCHANGED <<samples, lock, playing, total_frames, current_file,
                   pending, audio, worker_vars, cb_vars, ctl_op, poll_ret,
                   received, loaded, at_play, played, pure_vars>>

\* the commit as it would be without the total_frames store
PollKeepsTotal ==
    /\ ctl_pc = "store_total"
    /\ total_frames' = total_frames
    /\ ctl_pc' = "store_playing"
    /\ act' = "commit"
    /\ UNCHANGED <<samples, lock, cursor, playing, current_file, pending,
                   audio, worker_vars, cb_vars, ctl_op, poll_ret, received,
                   loaded, at_play, played, pure_vars>>

\* self.shared.total_frames.store(audio.total_frames)
PollStoreTotal ==
    /\ ctl_pc = "store_total"
    /\ total_frames' = audio.total_frames
    /\ ctl_pc' = "store_playing"
    /\ act' = "commit"
    /\ UNCHANGED <<samples, lock, cursor, playing, current_file, pending,
                   audio, worker_vars, cb_vars, ctl_op, poll_ret, received,
                   loaded, at_play, played, pure_vars>>

\* self.current_file = Some(audio.file); playing.store(true);
\* self.pending = None; return None
PollStorePlaying ==
    /\ ctl_pc = "store_playing"
    /\ current_file' = audio.file
    /\ playing' = TRUE
    /\ pending' = NoPending
    /\ chan' = DropPending(pending, chan)
    /\ audio' = NoMsg
    /\ poll_ret' = None
    /\ loaded' = TRUE
    /\ at_play' = NoSnapshot
    /\ ctl_pc' = "idle"
    /\ act' = "commit"
    /\ UNCHANGED <<samples, lock, cursor, total_frames, spawned, worker,
                   thread_path, cb_vars, ctl_op, received, played, pure_vars>>

\* the Ok(Err(e)) arm as it would be if it also forgot the current track
PollRecvErrClearsFile ==
    /\ ctl_pc = "idle"
    /\ pending.some
    /\ try_recv(pending.receiver) = "Ok"
    /\ ~chan[pending.receiver].msg.ok
    /\ poll_ret' = chan[pending.receiver].msg.err
    /\ received' = received \cup {pending.receiver}
    /\ pending' = NoPending
    /\ chan' = DropPending(pending, chan)
    /\ current_file' = None
    /\ act' = "poll"
    /\ ctl_op' = "poll"
    /\ UNCHANGED <<shared_vars, ctl_pc, audio, spawned, worker, thread_path,
                   cb_vars, loaded, at_play, played, pure_vars>>

\* the Ok(Err(e)) arm as it would be without `self.pending = None`
PollRecvErrKeepsPending ==
    /\ ctl_pc = "idle"
    /\ pending.some
    /\ try_recv(pending.receiver) = "Ok"
    /\ ~chan[pending.receiver].msg.ok
    /\ poll_ret' = chan[pending.receiver].msg.err
    /\ received' = received \cup {pending.receiver}
    /\ chan' = [chan EXCEPT ![pending.receiver].msg = NoMsg]
    /\ act' = "poll"
    /\ ctl_op' = "poll"
    /\ UNCHANGED <<shared_vars, engine_vars, spawned, worker, thread_path,
                   cb_vars, loaded, at_play, played, pure_vars>>

\* poll(), Ok(Err(e)), as it would be if it resumed the track it found
PollRecvErrSetsFlag ==
    /\ ctl_pc = "idle"
    /\ pending.some
    /\ try_recv(pending.receiver) = "Ok"
    /\ ~chan[pending.receiver].msg.ok
    /\ poll_ret' = chan[pending.receiver].msg.err
    /\ received' = received \cup {pending.receiver}
    /\ pending' = NoPending
    /\ chan' = DropPending(pending, chan)
    /\ playing' = TRUE
    /\ act' = "poll"
    /\ ctl_op' = "poll"
    /\ UNCHANGED <<samples, lock, cursor, total_frames, current_file, ctl_pc,
                   audio, spawned, worker, thread_path, cb_vars, loaded,
                   at_play, played, pure_vars>>

\* poll(), Ok(Err(e))
PollRecvErr ==
    /\ ctl_pc = "idle"
    /\ pending.some
    /\ try_recv(pending.receiver) = "Ok"
    /\ ~chan[pending.receiver].msg.ok
    /\ poll_ret' = chan[pending.receiver].msg.err
    /\ received' = received \cup {pending.receiver}
    /\ pending' = NoPending
    /\ chan' = DropPending(pending, chan)
    /\ act' = "poll"
    /\ ctl_op' = "poll"
    /\ UNCHANGED <<shared_vars, current_file, ctl_pc, audio, spawned, worker,
                   thread_path, cb_vars, loaded, at_play, played, pure_vars>>

\* the Empty arm as it would be if every try_recv error were taken for a
\* dead worker
PollEmptyAsDisconnected ==
    /\ ctl_pc = "idle"
    /\ pending.some
    /\ try_recv(pending.receiver) = "Empty"
    /\ pending' = NoPending
    /\ chan' = DropPending(pending, chan)
    /\ poll_ret' = TerminatedErr
    /\ act' = "poll"
    /\ ctl_op' = "poll"
    /\ UNCHANGED <<shared_vars, current_file, ctl_pc, audio, spawned, worker,
                   thread_path, cb_vars, received, loaded, at_play, played,
                   pure_vars>>

\* poll(), Err(TryRecvError::Empty)
PollEmpty ==
    /\ ctl_pc = "idle"
    /\ pending.some
    /\ try_recv(pending.receiver) = "Empty"
    /\ poll_ret' = None
    /\ act' = "poll"
    /\ ctl_op' = "poll"
    /\ UNCHANGED <<shared_vars, engine_vars, worker_vars, cb_vars, received,
                   loaded, at_play, played, pure_vars>>

\* the Disconnected arm as it would be without `self.pending = None`
PollDisconnectedKeepsPending ==
    /\ ctl_pc = "idle"
    /\ pending.some
    /\ try_recv(pending.receiver) = "Disconnected"
    /\ poll_ret' = TerminatedErr
    /\ act' = "poll"
    /\ ctl_op' = "poll"
    /\ UNCHANGED <<shared_vars, engine_vars, worker_vars, cb_vars, received,
                   loaded, at_play, played, pure_vars>>

\* the Disconnected arm as it would be if it dropped the load without a word
PollDisconnectedSilent ==
    /\ ctl_pc = "idle"
    /\ pending.some
    /\ try_recv(pending.receiver) = "Disconnected"
    /\ pending' = NoPending
    /\ chan' = DropPending(pending, chan)
    /\ poll_ret' = None
    /\ act' = "poll"
    /\ ctl_op' = "poll"
    /\ UNCHANGED <<shared_vars, current_file, ctl_pc, audio, spawned, worker,
                   thread_path, cb_vars, received, loaded, at_play, played,
                   pure_vars>>

\* poll(), Err(TryRecvError::Disconnected)
PollDisconnected ==
    /\ ctl_pc = "idle"
    /\ pending.some
    /\ try_recv(pending.receiver) = "Disconnected"
    /\ pending' = NoPending
    /\ chan' = DropPending(pending, chan)
    /\ poll_ret' = TerminatedErr
    /\ act' = "poll"
    /\ ctl_op' = "poll"
    /\ UNCHANGED <<shared_vars, current_file, ctl_pc, audio, spawned, worker,
                   thread_path, cb_vars, received, loaded, at_play, played,
                   pure_vars>>

\* stop() as it would be without `self.current_file = None`
StopKeepsFile ==
    /\ ctl_pc = "idle"
    /\ playing' = FALSE
    /\ pending' = NoPending
    /\ chan' = DropPending(pending, chan)
    /\ played' = <<>>
    /\ act' = "stop"
    /\ ctl_op' = "stop"
    /\ at_play' = NoSnapshot
    /\ UNCHANGED <<samples, lock, cursor, total_frames, current_file, ctl_pc,
                   audio, spawned, worker, thread_path, cb_vars, poll_ret,
                   received, loaded, pure_vars>>

\* stop() as it would be if it emptied the buffer
StopClearsBuffer ==
    /\ ctl_pc = "idle"
    /\ playing' = FALSE
    /\ pending' = NoPending
    /\ chan' = DropPending(pending, chan)
    /\ current_file' = None
    /\ samples' = <<>>
    /\ played' = <<>>
    /\ act' = "stop"
    /\ ctl_op' = "stop"
    /\ at_play' = NoSnapshot
    /\ UNCHANGED <<lock, cursor, total_frames, ctl_pc, audio,
                   spawned, worker, thread_path, cb_vars, poll_ret, received,
                   loaded, pure_vars>>

\* stop() as it would be without clearing the playing flag
StopLeavesFlag ==
    /\ ctl_pc = "idle"
    /\ playing' = playing
    /\ pending' = NoPending
    /\ chan' = DropPending(pending, chan)
    /\ current_file' = None
    /\ played' = <<>>
    /\ act' = "stop"
    /\ ctl_op' = "stop"
    /\ at_play' = NoSnapshot
    /\ UNCHANGED <<samples, lock, cursor, total_frames, ctl_pc, audio,
                   spawned, worker, thread_path, cb_vars, poll_ret, received,
                   loaded, pure_vars>>

\* PlaybackEngine::stop
Stop ==
    /\ ctl_pc = "idle"
    /\ playing' = FALSE
    /\ pending' = NoPending
    /\ chan' = DropPending(pending, chan)
    /\ current_file' = None
    /\ played' = <<>>
    /\ act' = "stop"
    /\ ctl_op' = "stop"
    /\ at_play' = NoSnapshot
    /\ UNCHANGED <<samples, lock, cursor, total_frames, ctl_pc, audio,
                   spawned, worker, thread_path, cb_vars, poll_ret, received,
                   loaded, pure_vars>>

\* Duration::from_secs_f64(frames as f64 / rate): a time as frames over the
\* device's frames per second
Secs(frames) == [frames |-> frames, per_second |-> device_sample_rate]

\* status() as it would be if it looked at the playing flag before the
\* pending load
StatusFlagFirst ==
    IF ~playing
      THEN [kind |-> "Idle"]
    ELSE IF pending.some
      THEN [kind |-> "Loading", file |-> pending.file]
    ELSE IF current_file # None
      THEN [kind |-> "Playing", file |-> current_file,
            position |-> Secs(IF device_channels > 0
                                THEN cursor \div device_channels ELSE 0),
            duration |-> Secs(total_frames)]
    ELSE [kind |-> "Idle"]

\* PlaybackEngine::status: what it returns on the state as it stands
status ==
    IF pending.some
      THEN [kind |-> "Loading", file |-> pending.file]
    ELSE IF ~playing
      THEN [kind |-> "Idle"]
    ELSE IF current_file # None
      THEN [kind |-> "Playing", file |-> current_file,
            position |-> Secs(IF device_channels > 0
                                THEN cursor \div device_channels ELSE 0),
            duration |-> Secs(total_frames)]
    ELSE [kind |-> "Idle"]

\* a call of status(): it takes &self and only loads
Status ==
    /\ ctl_pc = "idle"
    /\ act' = "status"
    /\ UNCHANGED <<shared_vars, engine_vars, worker_vars, cb_vars, ctl_op,
                   poll_ret, received, loaded, at_play, played, pure_vars>>

\* ------------------------------------------------------------ worker threads

\* the closure as it would be if its send waited for poll() to be receiving
\* from it
WorkerSendWaits(i) ==
    /\ worker[i] = "running"
    /\ pending.some
    /\ pending.receiver = i
    /\ LET result == decode_and_prepare(thread_path[i], device_channels,
                                        device_sample_rate)
       IN chan' = IF chan[i].rx
                    THEN [chan EXCEPT ![i].msg =
                            IF result.ok THEN result
                            ELSE [ok |-> FALSE, err |-> result.err]]
                    ELSE chan
    /\ worker' = [worker EXCEPT ![i] = "exited"]
    /\ thread_path' = [thread_path EXCEPT ![i] = None]
    /\ act' = "worker"
    /\ UNCHANGED <<shared_vars, engine_vars, spawned, cb_vars, ctl_op,
                   poll_ret, received, loaded, at_play, played, pure_vars>>

\* the spawned closure: run the pipeline, send the result and end, dropping
\* what the closure owns; a send to a dropped receiver fails and is ignored
WorkerSend(i) ==
    /\ worker[i] = "running"
    /\ LET result == decode_and_prepare(thread_path[i], device_channels,
                                        device_sample_rate)
       IN chan' = IF chan[i].rx
                    THEN [chan EXCEPT ![i].msg =
                            IF result.ok THEN result
                            ELSE [ok |-> FALSE, err |-> result.err]]
                    ELSE chan
    /\ worker' = [worker EXCEPT ![i] = "exited"]
    /\ thread_path' = [thread_path EXCEPT ![i] = None]
    /\ act' = "worker"
    /\ UNCHANGED <<shared_vars, engine_vars, spawned, cb_vars, ctl_op,
                   poll_ret, received, loaded, at_play, played, pure_vars>>

\* the worker thread panics inside the pipeline: the sender is dropped with
\* nothing sent
WorkerPanic(i) ==
    /\ worker[i] = "running"
    /\ worker' = [worker EXCEPT ![i] = "exited"]
    /\ thread_path' = [thread_path EXCEPT ![i] = None]
    /\ act' = "worker"
    /\ UNCHANGED <<shared_vars, engine_vars, spawned, chan, cb_vars, ctl_op,
                   poll_ret, received, loaded, at_play, played, pure_vars>>

\* --------------------------------------------------------- hardware callback

\* the entry of an invocation as it would be if it went for the buffer
\* whatever the flag says
CallbackIgnoresFlag(n) ==
    /\ cb_pc = "idle"
    /\ data' = Unfilled(n)
    /\ cb_pc' = "try_read"
    /\ act' = "callback"
    /\ UNCHANGED <<shared_vars, engine_vars, worker_vars, cb_cursor,
                   cb_to_copy, ctl_op, poll_ret, received, loaded, at_play,
                   played, pure_vars>>

\* audio_callback entry: load the playing flag; if false, silence and return
CallbackBegin(n) ==
    /\ cb_pc = "idle"
    /\ IF ~playing
         THEN /\ data' = Silence(n)
              /\ cb_pc' = "idle"
         ELSE /\ data' = Unfilled(n)
              /\ cb_pc' = "try_read"
    /\ act' = "callback"
    /\ UNCHANGED <<shared_vars, engine_vars, worker_vars, cb_cursor,
                   cb_to_copy, ctl_op, poll_ret, received, loaded, at_play,
                   played, pure_vars>>

\* the lock step as it would be with a blocking read(): it waits for the
\* writer
CallbackBlockingRead ==
    /\ cb_pc = "try_read"
    /\ lock # "write"
    /\ lock' = "read"
    /\ cb_pc' = "load_cursor"
    /\ act' = "callback"
    /\ UNCHANGED <<samples, cursor, playing, total_frames, engine_vars,
                   worker_vars, data, cb_cursor, cb_to_copy, ctl_op, poll_ret,
                   received, loaded, at_play, played, pure_vars>>

\* shared.samples.try_read(): fails while the writer holds the lock
CallbackTryRead ==
    /\ cb_pc = "try_read"
    /\ IF lock = "write"
         THEN /\ data' = Silence(Len(data))
              /\ cb_pc' = "idle"
              /\ lock' = lock
         ELSE /\ lock' = "read"
              /\ cb_pc' = "load_cursor"
              /\ data' = data
    /\ act' = "callback"
    /\ UNCHANGED <<samples, cursor, playing, total_frames, engine_vars,
                   worker_vars, cb_cursor, cb_to_copy, ctl_op, poll_ret,
                   received, loaded, at_play, played, pure_vars>>

\* cursor.load, remaining, to_copy and the copy into data; slicing past the
\* end of samples panics and unwinds, releasing the read guard
CallbackCopy ==
    /\ cb_pc = "load_cursor"
    /\ LET remaining == IF Len(samples) >= cursor
                          THEN Len(samples) - cursor ELSE 0
           to_copy == Min(remaining, Len(data))
       IN IF cursor + to_copy > Len(samples)
            THEN /\ cb_pc' = "panicked"
                 /\ lock' = "free"
                 /\ UNCHANGED <<data, cb_cursor, cb_to_copy, played>>
            ELSE /\ cb_cursor' = cursor
                 /\ cb_to_copy' = to_copy
                 /\ data' = Slice(samples, cursor, to_copy)
                              \o Silence(Len(data) - to_copy)
                 /\ cb_pc' = IF to_copy < Len(data)
                               THEN "store_playing" ELSE "store_cursor"
                 /\ lock' = lock
                 /\ played' =
                      IF \/ ctl_pc \in {"store_cursor", "store_total",
                                        "store_playing"}
                         \/ loaded /\ current_file # None
                        THEN played \o Slice(samples, cursor, to_copy)
                      ELSE played
    /\ act' = "callback"
    /\ UNCHANGED <<samples, cursor, playing, total_frames, engine_vars,
                   worker_vars, ctl_op, poll_ret, received, loaded, at_play,
                   pure_vars>>

\* the end-of-track branch as it would be without playing.store(false)
CallbackLeavesFlag ==
    /\ cb_pc = "store_playing"
    /\ playing' = playing
    /\ cb_pc' = "store_cursor"
    /\ act' = "callback"
    /\ UNCHANGED <<samples, lock, cursor, total_frames, engine_vars,
                   worker_vars, data, cb_cursor, cb_to_copy, ctl_op, poll_ret,
                   received, loaded, at_play, played, pure_vars>>

\* shared.playing.store(false) at the end of the track
CallbackStorePlaying ==
    /\ cb_pc = "store_playing"
    /\ playing' = FALSE
    /\ cb_pc' = "store_cursor"
    /\ act' = "callback"
    /\ UNCHANGED <<samples, lock, cursor, total_frames, engine_vars,
                   worker_vars, data, cb_cursor, cb_to_copy, ctl_op, poll_ret,
                   received, loaded, at_play, played, pure_vars>>

\* the cursor store as it would be if it stored the count copied instead of
\* the new offset
CallbackStoresCount ==
    /\ cb_pc = "store_cursor"
    /\ cursor' = cb_to_copy
    /\ lock' = "free"
    /\ cb_pc' = "idle"
    /\ cb_cursor' = 0
    /\ cb_to_copy' = 0
    /\ act' = "callback"
    /\ UNCHANGED <<samples, playing, total_frames, engine_vars, worker_vars,
                   data, ctl_op, poll_ret, received, loaded, at_play, played,
                   pure_vars>>

\* the last step of an invocation as it would be if the read guard outlived
\* the invocation
CallbackKeepsGuard ==
    /\ cb_pc = "store_cursor"
    /\ cursor' = cb_cursor + cb_to_copy
    /\ lock' = lock
    /\ cb_pc' = "idle"
    /\ cb_cursor' = 0
    /\ cb_to_copy' = 0
    /\ act' = "callback"
    /\ UNCHANGED <<samples, playing, total_frames, engine_vars, worker_vars,
                   data, ctl_op, poll_ret, received, loaded, at_play, played,
                   pure_vars>>

\* shared.cursor.store(cursor + to_copy), and the read guard goes out of scope
CallbackStoreCursor ==
    /\ cb_pc = "store_cursor"
    /\ cursor' = cb_cursor + cb_to_copy
    /\ lock' = "free"
    /\ cb_pc' = "idle"
    /\ cb_cursor' = 0
    /\ cb_to_copy' = 0
    /\ act' = "callback"
    /\ UNCHANGED <<samples, playing, total_frames, engine_vars, worker_vars,
                   data, ctl_op, poll_ret, received, loaded, at_play, played,
                   pure_vars>>

\* ------------------------------------------------------------ specification

\* every step that changes the engine, the workers or the callback
Changes ==
    \/ \E path \in Paths : Play(path)
    \/ PollNoPending
    \/ PollRecvAudio
    \/ PollWriteLock
    \/ PollWriteBuf
    \/ PollStoreCursor
    \/ PollStoreTotal
    \/ PollStorePlaying
    \/ PollRecvErr
    \/ PollEmpty
    \/ PollDisconnected
    \/ Stop
    \/ \E i \in Workers : WorkerSend(i)
    \/ \E i \in Workers : WorkerPanic(i)
    \/ \E n \in ReqLens : CallbackBegin(n)
    \/ CallbackTryRead
    \/ CallbackCopy
    \/ CallbackStorePlaying
    \/ CallbackStoreCursor

\* every step of the program: those, and the read-only status()
Next ==
    \/ Changes
    \/ Status

Spec == Init /\ [][Next]_vars

\* The scheduling the threads get: a worker runs its pipeline to the end (or
\* dies), a callback invocation runs to its return, poll() is called on every
\* UI tick and a commit it started runs to its return.
Poll ==
    \/ PollNoPending
    \/ PollRecvAudio
    \/ PollRecvErr
    \/ PollEmpty
    \/ PollDisconnected

Commit ==
    \/ PollWriteLock
    \/ PollWriteBuf
    \/ PollStoreCursor
    \/ PollStoreTotal
    \/ PollStorePlaying

CallbackRun ==
    \/ CallbackTryRead
    \/ CallbackCopy
    \/ CallbackStorePlaying
    \/ CallbackStoreCursor

\* each of the finitely many worker threads takes one step, so fairness to
\* the workers together is fairness to each of them
WorkerRun == \E i \in Workers : WorkerSend(i) \/ WorkerPanic(i)

\* The program under that scheduling.  Calls of status() are left out: they
\* read the state and change none of it.
FairSpec ==
    /\ Init
    /\ [][Changes]_vars
    /\ WF_vars(Poll)
    /\ WF_vars(Commit)
    /\ WF_vars(CallbackRun)
    /\ WF_vars(WorkerRun)

\* ------------------------------------------------ the pipeline by itself

\* the sample rates of tracks and devices
SampleRates == {44100, 48000, 96000}

\* What the decoder can hand decode_file: an early failure, or up to
\* MaxSamples samples (numbered 1, 2, ..) with the track's channel count
\* (codec_params.channels, or 2 when the container does not say) and rate.
Extractions ==
    {[err |-> "probe failed", all_samples |-> <<>>, channels |-> 0,
      sample_rate |-> 0]}
    \cup
    {[err |-> None, all_samples |-> [i \in 1..n |-> i], channels |-> c,
      sample_rate |-> r] :
        n \in 0..MaxSamples, c \in 1..MaxChannels, r \in SampleRates}

\* decode_and_prepare's arguments: the file, through what the decoder
\* extracts from it, and the device's channel count and rate
PrepInputs ==
    {[some |-> TRUE, x |-> x, target_channels |-> c, target_rate |-> r] :
        x \in Extractions, c \in 1..MaxChannels, r \in SampleRates}

\* a worker's decode_and_prepare call on one of the inputs
PrepInit ==
    /\ New
    /\ BrowserNew
    /\ prep_in \in PrepInputs
    /\ prep_out = NoMsg
    /\ ls_dir = NoInput
    /\ ls_ret = NoInput

\* decode_and_prepare returns
DecodeAndPrepare ==
    /\ prep_in.some
    /\ prep_out = NoMsg
    /\ prep_out' = PrepareExtracted(prep_in.x, "in.wav",
                                    prep_in.target_channels,
                                    prep_in.target_rate)
    /\ UNCHANGED <<shared_vars, engine_vars, worker_vars, cb_vars, obs_vars,
                   prep_in, ls_vars, br_vars>>

PrepNext == DecodeAndPrepare

PrepSpec == PrepInit /\ [][PrepNext]_vars

\* ------------------------------------- list_directory (punks-core) by itself

\* File names are sequences of ASCII codes, so that lowercasing and the
\* ordering of strings are what they are on bytes.  The names a directory may
\* hold: "a.mp3", "A.Mp3", "B.ogg", "c.txt", ".d.wav", "e", "f.WAV".
Names ==
    { <<97, 46, 109, 112, 51>>,  <<65, 46, 77, 112, 51>>,
      <<66, 46, 111, 103, 103>>, <<99, 46, 116, 120, 116>>,
      <<46, 100, 46, 119, 97, 118>>, <<101>>,
      <<102, 46, 87, 65, 86>> }

\* SUPPORTED_EXTENSIONS: "wav", "flac", "mp3", "ogg"
SUPPORTED_EXTENSIONS ==
    { <<119, 97, 118>>, <<102, 108, 97, 99>>, <<109, 112, 51>>,
      <<111, 103, 103>> }

\* str::to_ascii_lowercase: 'A'..'Z' to 'a'..'z', every other byte as it is
to_ascii_lowercase(str) ==
    [i \in 1..Len(str) |-> IF str[i] \in 65..90 THEN str[i] + 32 ELSE str[i]]

\* name.starts_with('.')
starts_with_dot(name) == Len(name) > 0 /\ name[1] = 46

\* Path::extension, then unwrap_or_default: what follows the last '.' of the
\* file name, or "" when there is no '.' or the only one is the first byte
extension(name) ==
    LET dots == {i \in 1..Len(name) : name[i] = 46} IN
    IF dots = {} THEN <<>>
    ELSE LET last == CHOOSE i \in dots : \A j \in dots : j <= i IN
         IF last = 1 THEN <<>> ELSE SubSeq(name, last + 1, Len(name))

\* the extension test of list_directory as it would be on the extension as
\* spelled
SupportedAsSpelled(name) == extension(name) \in SUPPORTED_EXTENSIONS

\* SUPPORTED_EXTENSIONS.contains(&ext) for ext the lowercased extension
Supported(name) == to_ascii_lowercase(extension(name)) \in SUPPORTED_EXTENSIONS

\* Ord for strings: a <= b byte by byte, a prefix before what it prefixes
StrLeq(a, b) ==
    \/ \E k \in 1..Min(Len(a), Len(b)) :
          /\ \A j \in 1..(k - 1) : a[j] = b[j]
          /\ a[k] < b[k]
    \/ /\ Len(a) <= Len(b)
       /\ \A j \in 1..Len(a) : a[j] = b[j]

\* the sort order as it would be on the names as spelled
ByteSort(a, b) == StrLeq(a.name, b.name)

\* ci_sort: a is not after b by lowercased name
ci_sort(a, b) ==
    StrLeq(to_ascii_lowercase(a.name), to_ascii_lowercase(b.name))

\* Vec::sort_by(ci_sort): a stable sort, each entry put after the entries
\* already placed that are not after it
RECURSIVE SortBy(_)
SortBy(v) ==
    IF v = <<>> THEN <<>>
    ELSE LET done == SortBy(SubSeq(v, 1, Len(v) - 1))
             e    == v[Len(v)]
             keep == {i \in 0..Len(done) :
                        \A j \in 1..i : ci_sort(done[j], e)}
             at   == CHOOSE i \in keep : \A j \in keep : j <= i
         IN SubSeq(done, 1, at) \o <<e>> \o SubSeq(done, at + 1, Len(done))

\* what an entry's metadata says it is: a directory, a regular file, or
\* neither (a symlink, a device; or the entry or its metadata cannot be read)
Kinds == {"dir", "file", "other"}

\* the directories list_directory may be pointed at: up to MaxEntries entries
\* of different names, in the order read_dir yields them
Listings ==
    UNION {{v \in [1..n -> [name : Names, kind : Kinds]] :
              \A i, j \in 1..n : v[i].name = v[j].name => i = j} :
           n \in 0..MaxEntries}

\* a path as the OS shows it: not a directory, a directory read_dir cannot
\* open, or a directory and its entries
DirPaths ==
    {[some |-> TRUE, is_dir |-> FALSE, read_ok |-> FALSE, read_dir |-> <<>>],
     [some |-> TRUE, is_dir |-> TRUE, read_ok |-> FALSE, read_dir |-> <<>>]}
    \cup
    {[some |-> TRUE, is_dir |-> TRUE, read_ok |-> TRUE, read_dir |-> v] :
        v \in Listings}

\* the FileEntry pushed for a directory entry
FileEntry(e) ==
    [name |-> e.name,
     extension |-> IF e.kind = "dir" THEN <<>>
                   ELSE to_ascii_lowercase(extension(e.name)),
     is_directory |-> e.kind = "dir"]

\* list_directory
list_directory(dir) ==
    IF ~dir.is_dir
      THEN [ok |-> FALSE, err |-> "NotADirectory"]
    ELSE IF ~dir.read_ok
      THEN [ok |-> FALSE, err |-> "Io"]
    ELSE LET seen  == SelectSeq(dir.read_dir,
                                LAMBDA e : ~starts_with_dot(e.name))
             found(kind) ==
                 SelectSeq(seen, LAMBDA e :
                     /\ e.kind = kind
                     /\ kind = "file" => Supported(e.name))
             dirs  == [i \in 1..Len(found("dir")) |->
                         FileEntry(found("dir")[i])]
             files == [i \in 1..Len(found("file")) |->
                         FileEntry(found("file")[i])]
         IN [ok |-> TRUE, entries |-> SortBy(dirs) \o SortBy(files)]

\* a call of list_directory on one of the paths
ListInit ==
    /\ New
    /\ BrowserNew
    /\ prep_in = NoInput
    /\ prep_out = NoMsg
    /\ ls_dir \in DirPaths
    /\ ls_ret = NoInput

\* list_directory returns
ListDirectory ==
    /\ ls_dir.some
    /\ ls_ret = NoInput
    /\ ls_ret' = list_directory(ls_dir)
    /\ UNCHANGED <<shared_vars, engine_vars, worker_vars, cb_vars, obs_vars,
                   prep_vars, ls_dir, br_vars>>

ListNext == ListDirectory

ListSpec == ListInit /\ [][ListNext]_vars

\* ------------------------------------ SampleBrowser navigation (punks-browser)

\* the names in the tree the browser walks: "r", "a", "B" and "s.wav"
RootName == <<114>>
DirNames == { <<97>>, <<66>> }
FileName == <<115, 46, 119, 97, 118>>

\* A path is the sequence of its components.  The tree: every directory above
\* the last level holds the directories "a" and "B", and every directory the
\* file "s.wav".
BrowserDirs ==
    UNION {{<<RootName>> \o v : v \in [1..k -> DirNames]} :
           k \in 0..(MaxDepth - 1)}

\* the paths open_directory may be given: the directories and one file
OpenPaths == BrowserDirs \cup {<<RootName, FileName>>}

\* what read_dir yields for a directory of the tree
ReadDir(path) ==
    IF Len(path) < MaxDepth
      THEN <<[name |-> FileName, kind |-> "file"],
             [name |-> <<66>>, kind |-> "dir"],
             [name |-> <<97>>, kind |-> "dir"]>>
    ELSE <<[name |-> FileName, kind |-> "file"]>>

\* how the file system shows a directory of the tree at the time of a call:
\* as it is, as one that cannot be read, or not at all
Seen == {"dir", "unreadable", "gone"}

\* the path as list_directory finds it
AsSeen(path, how) ==
    [some |-> TRUE,
     is_dir |-> path \in BrowserDirs /\ how # "gone",
     read_ok |-> path \in BrowserDirs /\ how = "dir",
     read_dir |-> IF path \in BrowserDirs /\ how = "dir"
                    THEN ReadDir(path) ELSE <<>>]

\* punks_core::list_directory(path) with the root and the entries' paths
DirListing(path, how) ==
    LET r == list_directory(AsSeen(path, how)) IN
    IF ~r.ok
      THEN r
    ELSE [ok |-> TRUE,
          root |-> path,
          entries |-> [i \in 1..Len(r.entries) |->
                         [path |-> Append(path, r.entries[i].name),
                          name |-> r.entries[i].name,
                          is_directory |-> r.entries[i].is_directory]]]

\* Some(listing)
SomeListing(r) == [some |-> TRUE, root |-> r.root, entries |-> r.entries]

\* SampleBrowser::entries
entries == IF listing.some THEN listing.entries ELSE <<>>

\* SampleBrowser::current_directory
current_directory ==
    IF history = <<>> THEN [some |-> FALSE]
    ELSE [some |-> TRUE, path |-> history[Len(history)]]

\* everything the navigation methods leave alone
BrowserFrame ==
    UNCHANGED <<shared_vars, engine_vars, worker_vars, cb_vars, obs_vars,
                prep_vars, ls_vars>>

\* SampleBrowser::open_directory
OpenDirectory(path, how) ==
    /\ LET r == DirListing(path, how) IN
       IF ~r.ok
         THEN /\ br_ret' = r.err
              /\ UNCHANGED <<history, listing, selected>>
       ELSE /\ history' = <<path>>
            /\ listing' = SomeListing(r)
            /\ selected' = NoInput
            /\ br_ret' = "Ok"
    /\ br_op' = "open_directory"
    /\ BrowserFrame

\* SampleBrowser::navigate_into
NavigateInto(index, how) ==
    /\ IF index >= Len(entries) \/ ~entries[index + 1].is_directory
         THEN /\ br_ret' = "NoSelection"
              /\ UNCHANGED <<history, listing, selected>>
       ELSE LET path == entries[index + 1].path
                r    == DirListing(path, how)
            IN IF ~r.ok
                 THEN /\ br_ret' = r.err
                      /\ UNCHANGED <<history, listing, selected>>
               ELSE /\ history' = Append(history, path)
                    /\ listing' = SomeListing(r)
                    /\ selected' = NoInput
                    /\ br_ret' = "Ok"
    /\ br_op' = "navigate_into"
    /\ BrowserFrame

\* history.truncate(len), then list the directory now last and show it; the
\* `?` returns with the history already cut
ShowLast(len, how) ==
    LET cut  == SubSeq(history, 1, len)
        r    == DirListing(cut[len], how)
    IN /\ history' = cut
       /\ IF ~r.ok
            THEN /\ br_ret' = r.err
                 /\ UNCHANGED <<listing, selected>>
          ELSE /\ listing' = SomeListing(r)
               /\ selected' = NoInput
               /\ br_ret' = "Ok"

\* SampleBrowser::navigate_up
NavigateUp(how) ==
    /\ IF Len(history) <= 1
         THEN /\ br_ret' = "Ok"
              /\ UNCHANGED <<history, listing, selected>>
       ELSE ShowLast(Len(history) - 1, how)
    /\ br_op' = "navigate_up"
    /\ BrowserFrame

\* SampleBrowser::navigate_to_breadcrumb
NavigateToBreadcrumb(level, how) ==
    /\ IF level >= Len(history)
         THEN /\ br_ret' = "Ok"
              /\ UNCHANGED <<history, listing, selected>>
       ELSE ShowLast(level + 1, how)
    /\ br_op' = "navigate_to_breadcrumb"
    /\ BrowserFrame

\* SampleBrowser::select
Select(index) ==
    /\ selected' = IF index < Len(entries)
                     THEN [some |-> TRUE, index |-> index]
                   ELSE selected
    /\ br_op' = "select"
    /\ br_ret' = "Ok"
    /\ UNCHANGED <<history, listing>>
    /\ BrowserFrame

\* the browser's navigation by itself: the UI calls the methods in any order,
\* on a file system that may have changed between the calls
BrowserNext ==
    \/ \E path \in OpenPaths, how \in Seen : OpenDirectory(path, how)
    \/ \E index \in 0..MaxEntries, how \in Seen : NavigateInto(index, how)
    \/ \E how \in Seen : NavigateUp(how)
    \/ \E level \in 0..MaxDepth, how \in Seen :
         NavigateToBreadcrumb(level, how)
    \/ \E index \in 0..MaxEntries : Select(index)

BrowserSpec == Init /\ [][BrowserNext]_vars

\* ------------------------------------------------------------------- claims

\* what poll()'s caller can see of playback: the shared state and the track
PlaybackUnchanged ==
    /\ samples' = samples
    /\ cursor' = cursor
    /\ total_frames' = total_frames
    /\ playing' = playing
    /\ current_file' = current_file

\* the value waiting in the current PendingLoad's channel
PendingMsg == chan[pending.receiver].msg

\* C1: once play(A) has been followed by another play() before poll()
\* received A's result, A's result is never received; A's worker finishing,
\* before or after the newer one, changes neither the shared state nor
\* current_file nor pending nor what poll() returned; and whatever buffer or
\* file is committed from then on is the newest request's.
C1_SupersededDropped ==
    [][ /\ \A i \in Workers :
             (i < spawned /\ i \notin received) =>
               /\ i \notin received'
               /\ (worker[i] = "running" /\ worker'[i] = "exited") =>
                    /\ PlaybackUnchanged
                    /\ pending' = pending
                    /\ poll_ret' = poll_ret
                    /\ chan'[i].msg = NoMsg
        /\ samples' # samples =>
             /\ spawned \in received
             /\ pending = PendingLoad(pending.file, spawned)
             /\ samples' = decode_and_prepare(pending.file,
                               device_channels, device_sample_rate).samples
        /\ (current_file' # current_file /\ current_file' # None) =>
             /\ spawned \in received
             /\ pending = PendingLoad(current_file', spawned)
      ]_vars

\* C1 witness: the first worker was superseded unreceived and has finished,
\* and the second request, for another file, is the one committed.
C1_Witness ==
    /\ spawned = 2
    /\ 1 \notin received
    /\ worker[1] = "exited"
    /\ received = {2}
    /\ current_file = "b.wav"
    /\ playing
    /\ samples = <<5, 5>>

\* C2: a callback invocation that begins after a play() call and before the
\* next commit completes fills its whole buffer with silence and returns
\* without reading the sample buffer.
C2_SilentAfterPlay ==
    [][ (act' = "callback" /\ cb_pc = "idle" /\ spawned >= 1 /\ ~loaded) =>
          /\ cb_pc' = "idle"
          /\ \E n \in ReqLens : data' = Silence(n)
      ]_vars

\* C2 witness: play() found the previous track playing, and a callback
\* invocation after it has just written silence.
C2_Witness ==
    /\ ~loaded
    /\ at_play.playing
    /\ at_play.samples # <<>>
    /\ act = "callback"
    /\ cb_pc = "idle"
    /\ data \in {Silence(n) : n \in ReqLens}
    /\ pending.some

\* C3: when the commit poll() started on a successful PreparedAudio returns,
\* the shared buffer is the prepared samples, cursor is 0, total_frames is the
\* prepared frame count, playing is true, current_file is the prepared file,
\* pending is cleared and poll() returned no error.
C3_CommitOnReturn ==
    [][ (ctl_pc = "store_playing" /\ ctl_pc' = "idle") =>
          /\ samples' = audio.samples
          /\ cursor' = 0
          /\ total_frames' = audio.total_frames
          /\ playing'
          /\ current_file' = audio.file
          /\ ~pending'.some
          /\ poll_ret' = None
      ]_vars

\* C4: under the threads' scheduling the engine never stays Loading: whenever
\* status() reports Loading, it later reports something else.
C4_LoadingEnds ==
    (status.kind = "Loading") ~> (status.kind # "Loading")

\* C4 witness: the pending load's worker has finished, poll() has committed
\* its result and the engine has gone from Loading to Playing.
C4_Witness ==
    /\ act = "commit"
    /\ loaded
    /\ worker[spawned] = "exited"
    /\ status.kind = "Playing"

\* the state right after a poll() call that returned an error
ErrorSurfaced == act = "poll" /\ ctl_pc = "idle" /\ poll_ret # None

\* C5 as stated: once poll() has surfaced the pipeline's error for a play(),
\* the playing flag, buffer, cursor and current track are those the play()
\* call found.
C5_StateAsBeforePlay ==
    (ErrorSurfaced /\ poll_ret # TerminatedErr) =>
      /\ playing = at_play.playing
      /\ samples = at_play.samples
      /\ cursor = at_play.cursor
      /\ current_file = at_play.current_file

\* C5 amended: once poll() has surfaced the failure of a play() (the
\* pipeline's error, or the worker's death), the buffer,
\* total_frames and current track are those the play() call found, and so is
\* the cursor unless a callback invocation was under way at the play(); the
\* playing flag is false whatever it was, and status() is Idle.
C5_FailureKeepsTrackButStops ==
    ErrorSurfaced =>
      /\ samples = at_play.samples
      /\ total_frames = at_play.total_frames
      /\ current_file = at_play.current_file
      /\ ~at_play.in_callback => cursor = at_play.cursor
      /\ ~playing
      /\ status.kind = "Idle"

\* C5 witness: a track was playing when play() was called for a file whose
\* decode fails, and poll() has just returned that failure.
C5_Witness ==
    /\ ErrorSurfaced
    /\ poll_ret = "no audio data decoded"
    /\ at_play.playing
    /\ at_play.current_file = "a.wav"
    /\ current_file = "a.wav"
    /\ samples = <<1, 2, 3, 4>>

\* C6: a poll() call that finds an error payload in the pending load's channel
\* clears pending, returns that error, leaves the playing flag false and does
\* not touch samples, cursor, total_frames or current_file.
C6_PollErrPayload ==
    [][ (act' = "poll" /\ pending.some /\ PendingMsg # NoMsg
           /\ ~PendingMsg.ok) =>
          /\ ~pending'.some
          /\ poll_ret' = PendingMsg.err
          /\ ~playing'
          /\ PlaybackUnchanged
      ]_vars

\* C6 witness: poll() has just returned the decoder's error while an earlier
\* track's buffer is still in place.
C6_Witness ==
    /\ act = "poll"
    /\ poll_ret = "no audio data decoded"
    /\ ~pending.some
    /\ ~playing
    /\ samples # <<>>
    /\ current_file # None

\* C7: a poll() call that finds the pending load's channel disconnected and
\* empty clears pending, returns the "terminated unexpectedly" error and
\* leaves playback state alone; the poll() call right after it returns no
\* error.
C7_PollDisconnected ==
    [][ /\ (act' = "poll" /\ pending.some /\ PendingMsg = NoMsg
              /\ worker[pending.receiver] = "exited") =>
             /\ ~pending'.some
             /\ poll_ret' = TerminatedErr
             /\ PlaybackUnchanged
        /\ (act' = "poll" /\ ctl_op = "poll" /\ poll_ret = TerminatedErr) =>
             /\ poll_ret' = None
             /\ PlaybackUnchanged
      ]_vars

\* C7 witness: the worker died, and poll() has just reported it.
C7_Witness ==
    /\ act = "poll"
    /\ poll_ret = TerminatedErr
    /\ ~pending.some
    /\ worker[spawned] = "exited"
    /\ spawned \notin received

\* C8: a poll() call that finds the pending load's channel empty, its worker
\* still running, changes nothing and returns no error.
C8_PollEmpty ==
    [][ (act' = "poll" /\ pending.some /\ PendingMsg = NoMsg
           /\ worker[pending.receiver] = "running") =>
          /\ pending' = pending
          /\ chan' = chan
          /\ ctl_pc' = ctl_pc
          /\ poll_ret' = None
          /\ PlaybackUnchanged
      ]_vars

\* C8 witness: poll() has just returned with the load still pending and its
\* worker still running.
C8_Witness ==
    /\ act = "poll"
    /\ pending.some
    /\ worker[pending.receiver] = "running"
    /\ poll_ret = None
    /\ ctl_pc = "idle"

\* C9: a poll() call with no pending load returns no error and changes no
\* engine or shared state.
C9_PollNoPending ==
    [][ (act' = "poll" /\ ~pending.some) =>
          /\ poll_ret' = None
          /\ pending' = pending
          /\ chan' = chan
          /\ ctl_pc' = ctl_pc
          /\ lock' = lock
          /\ PlaybackUnchanged
      ]_vars

\* C9 witness: poll() has just returned None with nothing pending, once while
\* a committed track is playing.
C9_Witness ==
    /\ act = "poll"
    /\ ~pending.some
    /\ poll_ret = None
    /\ playing
    /\ current_file # None

\* what stop() leaves behind
Stopped == ~playing /\ ~pending.some /\ current_file = None

\* C10: stop() leaves the flag false, no pending load and no current file;
\* that, and with it status() = Idle, lasts until the next play(); and a
\* stop() right after a stop() changes nothing.
C10_StopIdle ==
    [][ /\ act' = "stop" => Stopped'
        /\ (Stopped /\ act' # "play") => (Stopped' /\ status'.kind = "Idle")
        /\ (act' = "stop" /\ ctl_op = "stop") =>
             /\ PlaybackUnchanged
             /\ pending' = pending
             /\ chan' = chan
             /\ lock' = lock
      ]_vars

\* C10 witness: stop() was called while a load was pending over an earlier
\* committed track, and the engine is Idle.
C10_Witness ==
    /\ act = "stop"
    /\ Stopped
    /\ status.kind = "Idle"
    /\ samples # <<>>
    /\ worker[spawned] = "running"

\* C11: status() is Loading(file of the pending load) whenever a load is
\* pending, whatever the flag; otherwise Idle whenever the flag is false;
\* otherwise Playing(current file, cursor / device_channels frames,
\* total_frames frames, both over the device sample rate); and a status()
\* call changes no state.
C11_StatusCases ==
    /\ [](/\ pending.some =>
               status = [kind |-> "Loading", file |-> pending.file]
          /\ (~pending.some /\ ~playing) => status = [kind |-> "Idle"]
          /\ (~pending.some /\ playing) =>
               status = [kind |-> "Playing", file |-> current_file,
                         position |-> Secs(cursor \div device_channels),
                         duration |-> Secs(total_frames)])
    /\ [][ act' = "status" =>
             UNCHANGED <<shared_vars, engine_vars, worker_vars, cb_vars,
                         poll_ret>> ]_vars

\* C11 witness: status() has just been called part-way through a track.
C11_Witness ==
    /\ act = "status"
    /\ status.kind = "Playing"
    /\ status.file = "a.wav"
    /\ status.position = Secs(1)
    /\ status.duration = Secs(2)

\* a track is committed and no play() has come since
Committed == loaded /\ ~pending.some /\ ctl_pc = "idle"

\* C12 as stated: in any state where the cursor has reached the end of the
\* committed buffer and no play() has intervened, status() reports Idle.
C12_IdleAtBufferEnd ==
    (Committed /\ cursor = Len(samples)) => status.kind = "Idle"

\* C12 amended: in such a state status() reports Idle, or still Playing with
\* position equal to duration; the invocation that finds fewer samples left
\* than it was asked for is the one that clears the flag, and from its store
\* on status() does not report Playing.
C12_IdleAfterShortCopy ==
    /\ []((Committed /\ cursor = Len(samples)) =>
            \/ status.kind = "Idle"
            \/ /\ status.kind = "Playing"
               /\ status.position = status.duration)
    /\ [][ /\ (cb_pc = "load_cursor" /\ cb_pc' \notin {cb_pc, "panicked"}) =>
                (cb_pc' = "store_playing") = (cb_to_copy' < Len(data))
           /\ (cb_pc = "store_playing" /\ cb_pc' # cb_pc) =>
                (~playing' /\ status'.kind # "Playing")
         ]_vars

\* C12 witness: the callback has run past the end of the committed track and
\* cleared the flag; status() is Idle.
C12_Witness ==
    /\ Committed
    /\ samples = <<1, 2, 3, 4>>
    /\ cursor = Len(samples)
    /\ act = "callback"
    /\ cb_pc = "idle"
    /\ status.kind = "Idle"
    /\ current_file = "a.wav"

\* the position and duration status() would report, in frames
Position == cursor \div device_channels
Duration == total_frames

ZeroExtracted(path) ==
    Extracted(path).err = None /\ Extracted(path).all_samples = <<>>

\* C14: for a file from which the decoder extracts zero samples the pipeline
\* returns a decode error, never Ok: no worker sends a PreparedAudio of such
\* a file and none becomes the current track; and the poll() call that finds
\* the result returns that error, clears pending, commits nothing and leaves
\* the playing flag false.
C14_EmptyIsDecodeError ==
    /\ [](/\ \A i \in Workers :
               (thread_path[i] # None /\ ZeroExtracted(thread_path[i])) =>
                 ~decode_and_prepare(thread_path[i], device_channels,
                                     device_sample_rate).ok
          /\ \A i \in Workers :
               chan[i].msg.ok => ~ZeroExtracted(chan[i].msg.file)
          /\ current_file # None => ~ZeroExtracted(current_file))
    /\ [][ (act' = "poll" /\ pending.some /\ PendingMsg # NoMsg
              /\ ZeroExtracted(pending.file)) =>
             /\ poll_ret' = "no audio data decoded"
             /\ ~pending'.some
             /\ ctl_pc' = "idle"
             /\ ~playing'
             /\ PlaybackUnchanged
         ]_vars

\* C14 witness: poll() has just returned the decode error of the empty file,
\* requested right after construction, and nothing has been committed.
C14_Witness ==
    /\ ErrorSurfaced
    /\ poll_ret = "no audio data decoded"
    /\ spawned = 1
    /\ received = {1}
    /\ samples = <<>>
    /\ current_file = None
    /\ ~playing

\* the pipeline has returned Ok for a decoder output with samples in it
PreparedOk ==
    /\ prep_out # NoMsg
    /\ prep_out.ok
    /\ prep_in.x.all_samples # <<>>

\* C15: whatever the decoder extracted (at least one sample), and whatever
\* the device's channel count and rate, a PreparedAudio the pipeline returns
\* as Ok has at least one sample and at least one frame.
C15_NeverEmptyBuffer ==
    PreparedOk =>
      /\ Len(prep_out.samples) > 0
      /\ prep_out.total_frames > 0

\* the control thread is between two calls, and each operation it may call
\* next can take its first step (play() as long as the model has a worker
\* left for it)
ControlCanCall ==
    /\ ENABLED Poll
    /\ ENABLED Stop
    /\ ENABLED Status
    /\ spawned < MaxPlays => \A path \in Paths : ENABLED Play(path)

\* a callback invocation holds the read lock on the buffer
CallbackReading ==
    lock = "read" /\ cb_pc \in {"load_cursor", "store_playing", "store_cursor"}

\* C16 as stated: no control-thread operation ever waits: between calls each
\* of play(), poll(), stop() and status() can start, and a commit that poll()
\* has started can always take its next step, whatever the workers and the
\* callback are doing.
C16_ControlNeverWaits ==
    /\ ctl_pc = "idle" => ControlCanCall
    /\ ctl_pc # "idle" => ENABLED Commit

\* C16 amended: play(), stop(), status() and poll() up to its try_recv never
\* wait, and no operation waits for a worker.  The commit in poll() waits in
\* one place only, samples.write(), and only while a callback invocation
\* holds the read lock; that invocation can always take its next step, and
\* the lock is only ever read-held by an invocation under way.
C16_CommitWaitsOnlyForReader ==
    /\ ctl_pc = "idle" => ControlCanCall
    /\ (ctl_pc # "idle" /\ ~ENABLED Commit) =>
          /\ ctl_pc = "write_lock"
          /\ CallbackReading
    /\ lock = "read" => (CallbackReading /\ ENABLED CallbackRun)

\* C16 witness: poll() has received a PreparedAudio and stands at
\* samples.write() while a callback invocation, begun before the play(),
\* holds the read lock.
C16_Witness ==
    /\ ctl_pc = "write_lock"
    /\ audio.ok
    /\ CallbackReading
    /\ ~ENABLED Commit
    /\ ~playing

\* C17: the callback never panics: whatever the interleaving of play(),
\* poll(), stop() and the workers with an invocation, the cursor the
\* invocation loads is at most the length of the buffer it has read-locked,
\* so samples[cursor .. cursor + to_copy] is in range.
C17_CallbackNeverPanics ==
    /\ cb_pc # "panicked"
    /\ (cb_pc = "load_cursor" /\ lock = "read") => cursor <= Len(samples)

\* list_directory has returned a listing
Listed == ls_ret # NoInput /\ ls_ret.ok

\* a is not after b by lowercased name
NameLeq(a, b) == StrLeq(to_ascii_lowercase(a), to_ascii_lowercase(b))

\* C18: in every listing list_directory returns, no file comes before a
\* directory, and of two directories or two files the earlier one's name,
\* lowercased, is not after the later one's.
C18_DirsFirstSorted ==
    Listed =>
      \A i, j \in 1..Len(ls_ret.entries) :
        i < j =>
          LET a == ls_ret.entries[i]
              b == ls_ret.entries[j]
          IN /\ a.is_directory \/ ~b.is_directory
             /\ a.is_directory = b.is_directory => NameLeq(a.name, b.name)

\* C18 witness: read_dir yielded "B.ogg", then "a.mp3", then the directory
\* "e", and the listing is "e", "a.mp3", "B.ogg".
C18_Witness ==
    /\ Listed
    /\ Len(ls_dir.read_dir) = 3
    /\ ls_dir.read_dir[1] =
         [name |-> <<66, 46, 111, 103, 103>>, kind |-> "file"]
    /\ ls_dir.read_dir[3] = [name |-> <<101>>, kind |-> "dir"]
    /\ Len(ls_ret.entries) = 3
    /\ ls_ret.entries[1].name = <<101>>
    /\ ls_ret.entries[2].name = <<97, 46, 109, 112, 51>>
    /\ ls_ret.entries[3].name = <<66, 46, 111, 103, 103>>

\* the entries of the directory that belong in its listing: not hidden, and a
\* directory or a regular file with an audio extension in any case
Wanted ==
    {e \in {ls_dir.read_dir[i] : i \in 1..Len(ls_dir.read_dir)} :
       /\ e.name[1] # 46
       /\ \/ e.kind = "dir"
          \/ /\ e.kind = "file"
             /\ \E x \in SUPPORTED_EXTENSIONS :
                  /\ Len(e.name) > Len(x) + 1
                  /\ e.name[Len(e.name) - Len(x)] = 46
                  /\ to_ascii_lowercase(
                       SubSeq(e.name, Len(e.name) - Len(x) + 1, Len(e.name)))
                       = x}

\* C19: for a directory that can be read, the listing holds, once each,
\* exactly the non-hidden subdirectories and the non-hidden regular files
\* whose extension lowercased is wav, flac, mp3 or ogg, each marked as what it
\* is; for a path that is not a directory the result is NotADirectory.
C19_ExactContents ==
    ls_ret # NoInput =>
      /\ ~ls_dir.is_dir => ls_ret = [ok |-> FALSE, err |-> "NotADirectory"]
      /\ (ls_dir.is_dir /\ ls_dir.read_ok) =>
           /\ ls_ret.ok
           /\ Len(ls_ret.entries) = Cardinality(Wanted)
           /\ {[name |-> f.name,
                kind |-> IF f.is_directory THEN "dir" ELSE "file"] :
                 f \in {ls_ret.entries[i] : i \in 1..Len(ls_ret.entries)}}
                = Wanted

\* C19 witness: of "f.WAV", the hidden ".d.wav" and "c.txt", all regular
\* files, only "f.WAV" is listed.
C19_Witness ==
    /\ Listed
    /\ {e.name : e \in {ls_dir.read_dir[i] : i \in 1..Len(ls_dir.read_dir)}}
         = {<<102, 46, 87, 65, 86>>, <<46, 100, 46, 119, 97, 118>>,
            <<99, 46, 116, 120, 116>>}
    /\ \A i \in 1..Len(ls_dir.read_dir) : ls_dir.read_dir[i].kind = "file"
    /\ Len(ls_ret.entries) = 1
    /\ ls_ret.entries[1].name = <<102, 46, 87, 65, 86>>
    /\ ls_ret.entries[1].extension = <<119, 97, 118>>

\* the steps of a commit in poll() after the buffer has been replaced and
\* before the playing flag is set
Publishing == ctl_pc \in {"store_cursor", "store_total", "store_playing"}

\* C20: no callback invocation copies samples out of a buffer poll() has
\* just written unless that commit's cursor reset, total_frames store and
\* playing store have all taken effect: no copy of one or more samples
\* happens while the commit stands between its buffer write and its return.
C20_CopyAfterPublish ==
    [][ (cb_pc = "load_cursor" /\ cb_pc' \in {"store_playing", "store_cursor"}
           /\ cb_to_copy' > 0) =>
          ~Publishing
      ]_vars

\* C21: an invocation that found the flag true and got read access copies
\* n = min(len(samples) - cursor, requested) samples from the cursor into the
\* head of its buffer and silence into the rest, stores the flag false
\* exactly when n < requested, stores the cursor it loaded plus n, and
\* leaves samples and total_frames alone.
C21_CopyAndAdvance ==
    [][ /\ (cb_pc = "load_cursor" /\ cb_pc' # cb_pc) =>
             LET n == Min(Len(samples) - cursor, Len(data)) IN
             /\ n >= 0
             /\ cb_pc' \in {"store_playing", "store_cursor"}
             /\ data' = Slice(samples, cursor, n) \o Silence(Len(data) - n)
             /\ cb_cursor' = cursor
             /\ cb_to_copy' = n
             /\ (cb_pc' = "store_playing") = (n < Len(data))
             /\ UNCHANGED <<samples, total_frames, cursor, playing>>
        /\ (cb_pc = "store_playing" /\ cb_pc' # cb_pc) =>
             /\ ~playing'
             /\ UNCHANGED <<samples, total_frames, cursor, data>>
        /\ (cb_pc = "store_cursor" /\ cb_pc' # cb_pc) =>
             /\ cursor' = cb_cursor + cb_to_copy
             /\ UNCHANGED <<samples, total_frames, playing, data>>
      ]_vars

\* C22: an invocation that finds the flag false fills its whole buffer with
\* silence and returns at once: it does not try the lock and changes neither
\* cursor, playing, samples nor total_frames.
C22_SilentWhenNotPlaying ==
    [][ (act' = "callback" /\ cb_pc = "idle" /\ ~playing) =>
          /\ \E n \in ReqLens : data' = Silence(n)
          /\ cb_pc' = "idle"
          /\ UNCHANGED <<lock, cursor, playing, samples, total_frames>>
      ]_vars

\* C22 witness: after stop() on a track half played, an invocation has just
\* written silence and the cursor is where it was.
C22_Witness ==
    /\ act = "callback"
    /\ cb_pc = "idle"
    /\ ctl_op = "stop"
    /\ ~playing
    /\ data \in {Silence(n) : n \in ReqLens}
    /\ samples = <<1, 2, 3, 4>>
    /\ cursor = 2

\* C23: the callback never waits for a writer: an invocation under way can
\* always take its next step, and one that tries the lock while poll() holds
\* it for writing returns at that step with its whole buffer silent, leaving
\* cursor, the playing flag and the lock as they are.
C23_NoWaitForWriter ==
    /\ [](cb_pc \notin {"idle", "panicked"} => ENABLED CallbackRun)
    /\ [][ (cb_pc = "try_read" /\ lock = "write" /\ cb_pc' # cb_pc) =>
             /\ cb_pc' = "idle"
             /\ data' = Silence(Len(data))
             /\ UNCHANGED <<lock, cursor, playing, samples, total_frames>>
         ]_vars

\* C23 witness: poll() holds the write lock, about to replace the buffer, and
\* an invocation that had found the flag true has just returned silence.
C23_Witness ==
    /\ act = "callback"
    /\ cb_pc = "idle"
    /\ lock = "write"
    /\ ctl_pc = "write_buf"
    /\ data \in {Silence(n) : n \in ReqLens}

\* C24: the playing flag goes from false to true only at the end of the
\* commit in a poll() call that received a PreparedAudio.
C24_FlagSetOnlyByCommit ==
    [][ (~playing /\ playing') =>
          /\ act' = "commit"
          /\ ctl_pc = "store_playing"
          /\ ctl_pc' = "idle"
          /\ audio.ok
          /\ pending.receiver \in received
      ]_vars

\* C24 witness: the second play() cleared the flag and the commit of its
\* result has just set it again.
C24_Witness ==
    /\ act = "commit"
    /\ ctl_pc = "idle"
    /\ playing
    /\ spawned = 2
    /\ received = {1, 2}
    /\ current_file = "b.wav"

\* C25: the buffer is replaced only by the buffer write of a commit, under
\* the write lock and by the PreparedAudio poll() received; every other step
\* leaves it as it is.
C25_BufferWrittenOnlyByCommit ==
    [][ /\ samples' # samples =>
             /\ act' = "commit"
             /\ ctl_pc = "write_buf"
             /\ lock = "write"
             /\ audio.ok
             /\ samples' = audio.samples
        /\ act' \in {"play", "stop", "status", "poll", "worker", "callback"} =>
             samples' = samples
      ]_vars

\* C25 witness: after play() for a second track its worker has just sent the
\* PreparedAudio, and the buffer is still the first track's.
C25_Witness ==
    /\ act = "worker"
    /\ spawned = 2
    /\ worker[2] = "exited"
    /\ pending.some
    /\ PendingMsg.ok
    /\ PendingMsg.samples = <<5, 5>>
    /\ samples = <<1, 2, 3, 4>>

\* C26 as stated: only the callback ever writes cursor.
C26_CursorOnlyByCallback ==
    [][ cursor' # cursor => act' = "callback" ]_vars

\* C26 amended: cursor is written by the callback's cursor store and by the
\* cursor reset of a commit in poll(), which stores 0; play(), stop(),
\* status(), a poll() that does not commit and the workers never write it.
C26_CursorByCallbackOrCommit ==
    [][ /\ cursor' # cursor =>
             \/ act' = "callback" /\ cb_pc = "store_cursor"
             \/ act' = "commit" /\ ctl_pc = "store_cursor" /\ cursor' = 0
        /\ act' \in {"play", "stop", "status", "poll", "worker"} =>
             cursor' = cursor
      ]_vars

\* C26 witness: the commit of a second track has just reset the cursor the
\* first track's playback had left at its end.
C26_Witness ==
    /\ act = "commit"
    /\ ctl_pc = "store_total"
    /\ cursor = 0
    /\ at_play.cursor = 4
    /\ audio.ok

\* C27: whatever the decoder extracted and whatever the device's channel
\* count (at least 1) and rate, a PreparedAudio returned as Ok holds whole
\* frames: its length is a multiple of the target channel count, and
\* total_frames is the quotient.
C27_WholeFrames ==
    PreparedOk =>
      /\ Len(prep_out.samples) % prep_in.target_channels = 0
      /\ prep_out.total_frames =
           Len(prep_out.samples) \div prep_in.target_channels

\* the pipeline has returned Ok without resampling, after adapting between
\* two different channel counts
AdaptedOnly ==
    /\ PreparedOk
    /\ prep_in.x.sample_rate = prep_in.target_rate
    /\ prep_in.x.channels # prep_in.target_channels

\* C28: adapting from `from` to `to` channels (different, both at least 1)
\* gives, for each of the floor(len / from) input frames in order, `to`
\* samples: channel ch is the input's channel ch when ch < from, and the
\* frame's last input channel otherwise.
C28_AdaptChannels ==
    AdaptedOnly =>
      LET in     == prep_in.x.all_samples
          out    == prep_out.samples
          from   == prep_in.x.channels
          to     == prep_in.target_channels
          frames == Len(in) \div from
      IN /\ Len(out) = frames * to
         /\ \A f \in 0..(frames - 1) : \A ch \in 0..(to - 1) :
              out[f * to + ch + 1] =
                IF ch < from THEN in[f * from + ch + 1]
                ELSE in[f * from + from]

\* C28 witness: two stereo frames adapted to three channels, the third a
\* copy of the second.
C28_Witness ==
    /\ AdaptedOnly
    /\ prep_in.x.all_samples = <<1, 2, 3, 4>>
    /\ prep_in.x.channels = 2
    /\ prep_in.target_channels = 3
    /\ prep_out.samples = <<1, 2, 2, 3, 4, 4>>

\* C29: the prepared buffer is the channel-adapted samples as they are when
\* the track's rate is the device's (the decoded samples themselves when the
\* channel counts match too), and the resampler's output for them when the
\* rates differ.
C29_ResampleOnlyIfRatesDiffer ==
    PreparedOk =>
      LET adapted == adapt_channels(prep_in.x.all_samples, prep_in.x.channels,
                                    prep_in.target_channels)
      IN /\ prep_in.x.sample_rate = prep_in.target_rate =>
              /\ prep_out.samples = adapted
              /\ prep_in.x.channels = prep_in.target_channels =>
                   prep_out.samples = prep_in.x.all_samples
         /\ prep_in.x.sample_rate # prep_in.target_rate =>
              prep_out.samples =
                resample(adapted, prep_in.target_channels,
                         prep_in.x.sample_rate, prep_in.target_rate)

\* C29 witness: three samples of a stereo track at the device's rate and
\* channel count come out as they went in, the odd one included.
C29_Witness ==
    /\ PreparedOk
    /\ prep_in.x.sample_rate = 48000
    /\ prep_in.target_rate = 48000
    /\ prep_in.x.channels = 2
    /\ prep_in.target_channels = 2
    /\ prep_in.x.all_samples = <<1, 2, 3>>
    /\ prep_out.samples = <<1, 2, 3>>

\* a track is committed and neither play() nor stop() has been called since
InTrack == loaded /\ current_file # None

\* the invocation under way has copied less than it was asked for and has
\* cleared the playing flag, which is still clear
ClearedAtEnd == cb_pc = "store_cursor" /\ cb_to_copy < Len(data) /\ ~playing

\* C30: from a commit until the callback clears the flag at the end of the
\* track, with no play() or stop() in between, what the invocations have
\* copied out of the committed buffer, in order, is the buffer from index 0
\* on with nothing skipped or repeated, and is the whole buffer when the flag
\* is cleared.  What an invocation copied out of the new buffer while the
\* commit was still under way may be counted or not (the first k samples of
\* played).
C30_WholeBufferInOrder ==
    InTrack =>
      \E k \in 0..Len(played) :
        LET copied == Slice(played, k, Len(played) - k) IN
        /\ Len(copied) <= Len(samples)
        /\ copied = Slice(samples, 0, Len(copied))
        /\ ClearedAtEnd => copied = samples

\* C31: the cursor reset of a commit is never lost: an invocation that stores
\* the cursor stores over the value it loaded, never over the 0 a commit has
\* stored in between, so the cursor it leaves is not one worked out from the
\* previous track's.
C31_CursorResetKept ==
    [][ (cb_pc = "store_cursor" /\ cb_pc' = "idle") => cursor = cb_cursor
      ]_vars

\* C32: once a commit has set the flag, the flag stays set until play() or
\* stop() is called or the callback comes to the end of the committed buffer:
\* it is never cleared by an invocation that loaded its cursor before the
\* commit reset it, that is, by one working on the previous track's position.
C32_FlagKeptUntilTrackEnd ==
    [][ (InTrack /\ playing /\ ~playing') =>
          \/ act' \in {"play", "stop"}
          \/ /\ act' = "callback"
             /\ cb_pc = "store_playing"
             /\ cursor = cb_cursor
      ]_vars

\* C33: whenever the playing flag is true, total_frames is the number of
\* frames of the buffer stored, len(samples) / device_channels, and so the
\* duration status() reports for a playing track is that of the buffer the
\* callback reads.
C33_TotalFramesOfBuffer ==
    /\ playing => total_frames = Len(samples) \div device_channels
    /\ status.kind = "Playing" =>
         status.duration = Secs(Len(samples) \div device_channels)

\* C33 witness: two tracks have been committed one after the other; the
\* second, b.wav (one frame), is playing and status() has just reported its
\* duration.
C33_Witness ==
    /\ act = "status"
    /\ status.kind = "Playing"
    /\ status.file = "b.wav"
    /\ received = {1, 2}
    /\ samples = <<5, 5>>
    /\ total_frames = 1
    /\ status.duration = Secs(1)

\* C34: between the control thread's operations, a true playing flag means
\* that current_file is set and no load is pending, so status() reports
\* Playing (never the Idle of its last branch) with current_file; and
\* current_file is the file of the last commit, being written only by a
\* commit, with the file committed, and by stop(), with None.
C34_PlayingHasFile ==
    /\ []((ctl_pc = "idle" /\ playing) =>
            /\ current_file # None
            /\ ~pending.some
            /\ status.kind = "Playing"
            /\ status.file = current_file)
    /\ [][ current_file' # current_file =>
             \/ /\ act' = "commit"
                /\ ctl_pc = "store_playing"
                /\ current_file' = audio.file
             \/ /\ act' = "stop"
                /\ current_file' = None
         ]_vars

\* C34 witness: the first load was superseded before poll() received it, the
\* second, a.wav, is committed and playing, and status() has just said so.
C34_Witness ==
    /\ act = "status"
    /\ ctl_pc = "idle"
    /\ playing
    /\ spawned = 2
    /\ received = {2}
    /\ current_file = "a.wav"
    /\ ~pending.some
    /\ status.kind = "Playing"
    /\ status.file = "a.wav"

\* C35: no context can block another for good.  The callback has read access
\* only inside an invocation; a running worker can always send; and under
\* fair scheduling a commit waiting for write access gets it and returns
\* (the control thread is always between operations again later), and every
\* worker spawned, superseded or not, ends (none is running for ever).
C35_NoDeadlock ==
    /\ [](lock = "read" =>
            cb_pc \in {"load_cursor", "store_playing", "store_cursor"})
    /\ [](\A i \in Workers : worker[i] = "running" => ENABLED WorkerSend(i))
    /\ []<>(ctl_pc = "idle")
    /\ \A i \in Workers : []<>(worker[i] # "running")

\* C35 witness: the commit of a second track is waiting for write access
\* while an invocation that began before play() holds read access, and both
\* workers have ended.
C35_Witness ==
    /\ ctl_pc = "write_lock"
    /\ lock = "read"
    /\ cb_pc = "store_cursor"
    /\ spawned = 2
    /\ \A i \in Workers : worker[i] = "exited"
    /\ ~playing

\* a call of navigate_up or navigate_to_breadcrumb returns an error
NavigationFails ==
    /\ br_op' \in {"navigate_up", "navigate_to_breadcrumb"}
    /\ br_ret' # "Ok"

\* C36: a navigate_up or navigate_to_breadcrumb that returns an error leaves
\* the history, the listing and the selection as they were, and so the
\* directory current_directory() gives is always the root of the listing
\* entries() shows.
C36_NavigationAtomicOnFailure ==
    /\ [][ NavigationFails => UNCHANGED <<history, listing, selected>> ]_vars
    /\ [](listing.some =>
            /\ current_directory.some
            /\ current_directory.path = listing.root)

====
